---- MODULE Spec2Model ----
(***************************************************************************)
(* Tree pruning and layout engine of the time-scaled tree view:            *)
(* redraw_tree, reset_tree and click_cluster of js/drawtree.js.            *)
(*                                                                         *)
(* A step is what runs between two returns to the event loop: a call up to *)
(* its await (or to its end), or the rest of a suspended call.             *)
(*                                                                         *)
(* Node objects live on a heap (a sequence of node records indexed by      *)
(* address); arrays such as df, df_copy, filtered_df and final_df are      *)
(* sequences of addresses, so that aliasing between the full tree and a    *)
(* pass's working copy is visible.  Ids are 0-based as in the source; the  *)
(* element with id i of an array sits at position i+1 of the sequence.     *)
(***************************************************************************)
EXTENDS Integers, Sequences, FiniteSets

\* Largest number of nodes of the full tree.
MaxNodes == 4
\* Largest number of nodes of the full tree on the pages with recombinant
\* tips and with malformed trees.
MaxSmallNodes == 3
\* Largest number of recombinant tips.
MaxRecomb == 2
\* Largest number of handlers suspended at the same time.
MaxPending == 2

\* Largest tree and most tips of the pages with long chains.
MaxChainNodes == 5
MaxChainTips == 2

\* JavaScript null and undefined, outside the range of ids.
Null == 0 - 1
Undefined == 0 - 2
\* The address that stands for the value undefined where an object is expected.
UndefAddr == 0 - 3

VARIABLES
  df,             \* the full tree: sequence of node records, df[i+1].thisId = i
  cutoff_date,    \* argument of the last redraw_tree call
  outcome,        \* how the last call ended: "none", "pruned", "fallback", "TypeError",
                  \* or "hang" for a call that never returns
  final_df,       \* node list last handed to drawtree
  filtered_tips,  \* tip list last handed to draw_clusters
  map_ids,        \* global old-id -> new-id mapping
  globals,        \* the implicit globals parent and child of the compaction loop
  recombinant_tips,      \* the recombinant tips of the page, in their original order
  filtered_recomb_tips,  \* recombinant list last handed to draw_clusters
  cindex,         \* global index of the selected cluster
  pending,        \* handlers suspended at await beadplot(...), oldest first
  shown,          \* what the tables below the tree were last filled with
  prev            \* history (SpecHist only): cutoff, outcome and tips of the call before the last

vars == <<df, cutoff_date, outcome, final_df, filtered_tips, map_ids, globals,
          recombinant_tips, filtered_recomb_tips, cindex, pending, shown, prev>>

----------------------------------------------------------------------------
(* Sequences as JavaScript arrays *)

Range(s) == {s[k] : k \in 1..Len(s)}

Includes(s, v) == \E k \in 1..Len(s) : s[k] = v

\* arr[id]: undefined outside the array (also for null and undefined keys).
At(arr, id) == IF id \in 0..(Len(arr) - 1) THEN arr[id + 1] ELSE UndefAddr

\* Array.prototype.findIndex(x => x == v): first 0-based index, or -1.
FindIndex(s, v) ==
  IF Includes(s, v) THEN (CHOOSE k \in 1..Len(s) : s[k] = v /\ \A j \in 1..(k - 1) : s[j] # v) - 1
  ELSE 0 - 1

\* Array.prototype.splice(index, 1, item): a negative index counts from the end.
Splice(s, index, item) ==
  LET start == IF index < 0 THEN (IF Len(s) + index < 0 THEN 0 ELSE Len(s) + index)
               ELSE (IF index > Len(s) THEN Len(s) ELSE index)
      del == IF Len(s) - start < 1 THEN Len(s) - start ELSE 1
  IN SubSeq(s, 1, start) \o <<item>> \o SubSeq(s, start + del + 1, Len(s))

----------------------------------------------------------------------------
(* Numbers: a y coordinate is a JavaScript number, an IEEE-754 binary64.
   A finite value >= 0 is [m, e] and stands for m * 2^e, where the mantissa m
   is a little-endian sequence of limbs in base 2^15 and is either zero or
   holds exactly 53 bits. Sums and quotients are computed exactly and then
   rounded to nearest, ties to even. *)

LimbBits == 15
Limb == 32768
MantissaBits == 53

RECURSIVE Pow2(_)
Pow2(s) == IF s = 0 THEN 1 ELSE 2 * Pow2(s - 1)

RECURSIVE BigNorm(_)
BigNorm(a) ==
  IF a = <<>> THEN <<>>
  ELSE IF a[Len(a)] = 0 THEN BigNorm(SubSeq(a, 1, Len(a) - 1))
  ELSE a

RECURSIVE BigAddCarry(_, _, _)
BigAddCarry(a, b, c) ==
  IF a = <<>> /\ b = <<>> THEN (IF c = 0 THEN <<>> ELSE <<c>>)
  ELSE LET x == IF a = <<>> THEN 0 ELSE Head(a)
           y == IF b = <<>> THEN 0 ELSE Head(b)
           s == x + y + c
       IN <<s % Limb>> \o BigAddCarry(IF a = <<>> THEN <<>> ELSE Tail(a),
                                      IF b = <<>> THEN <<>> ELSE Tail(b),
                                      s \div Limb)

BigAdd(a, b) == BigNorm(BigAddCarry(a, b, 0))

\* a * f for a small factor f <= 2^15
RECURSIVE BigMulSmall(_, _, _)
BigMulSmall(a, f, c) ==
  IF a = <<>> THEN (IF c = 0 THEN <<>> ELSE <<c>>)
  ELSE LET p == Head(a) * f + c
       IN <<p % Limb>> \o BigMulSmall(Tail(a), f, p \div Limb)

\* quotient and remainder of a by a small divisor 0 < k <= 2^15, from the top limb down
RECURSIVE BigDivSmall(_, _)
BigDivSmall(a, k) ==
  IF a = <<>> THEN [q |-> <<>>, r |-> 0]
  ELSE LET hi == BigDivSmall(Tail(a), k)
           cur == hi.r * Limb + Head(a)
       IN [q |-> <<cur \div k>> \o hi.q, r |-> cur % k]

BigShl(a, s) ==
  IF a = <<>> THEN <<>>
  ELSE [i \in 1..(s \div LimbBits) |-> 0] \o BigNorm(BigMulSmall(a, Pow2(s % LimbBits), 0))

BigShr(a, s) ==
  IF s \div LimbBits >= Len(a) THEN <<>>
  ELSE BigNorm(BigDivSmall(SubSeq(a, s \div LimbBits + 1, Len(a)), Pow2(s % LimbBits)).q)

RECURSIVE BitLen(_)
BitLen(x) == IF x = 0 THEN 0 ELSE 1 + BitLen(x \div 2)

BigBits(a) == IF a = <<>> THEN 0 ELSE (Len(a) - 1) * LimbBits + BitLen(a[Len(a)])

BigOdd(a) == a # <<>> /\ a[1] % 2 = 1

DblZero == [m |-> <<>>, e |-> 0]
\* 0 / 0
NaN == [m |-> <<>>, e |-> 1]

\* the double nearest to n * 2^e (+ a fraction of the last bit when sticky), ties to even
RoundTo53(n, e, sticky) ==
  LET len == BigBits(n) IN
  IF len = 0 THEN DblZero
  ELSE IF len <= MantissaBits THEN [m |-> BigShl(n, MantissaBits - len), e |-> e - (MantissaBits - len)]
  ELSE LET s == len - MantissaBits
           q == BigShr(n, s)
           upper == BigShr(n, s - 1)
           half == BigOdd(upper)
           rest == sticky \/ BigShl(upper, s - 1) # n
           up == half /\ (rest \/ BigOdd(q))
           r == IF up THEN BigAdd(q, <<1>>) ELSE q
       IN IF BigBits(r) > MantissaBits THEN [m |-> BigShr(r, 1), e |-> e + s + 1]
          ELSE [m |-> r, e |-> e + s]

\* Number(k) for an integer 0 <= k < 2^15
DblInt(k) == IF k = 0 THEN DblZero ELSE RoundTo53(<<k>>, 0, FALSE)

\* p + q
DblAdd(p, q) ==
  IF p = NaN \/ q = NaN THEN NaN
  ELSE IF p.m = <<>> THEN q
  ELSE IF q.m = <<>> THEN p
  ELSE LET e == IF p.e < q.e THEN p.e ELSE q.e
       IN RoundTo53(BigAdd(BigShl(p.m, p.e - e), BigShl(q.m, q.e - e)), e, FALSE)

\* p / k for an array length 0 <= k < 2^15; the sum over no children is 0, and 0 / 0 is NaN
DblDiv(p, k) ==
  IF p = NaN \/ k = 0 THEN NaN
  ELSE IF p.m = <<>> THEN DblZero
  ELSE LET d == BigDivSmall(BigShl(p.m, LimbBits + 1), k)
       IN RoundTo53(BigNorm(d.q), p.e - (LimbBits + 1), d.r # 0)

----------------------------------------------------------------------------
(* Dates and their formatted form *)

\* Collection dates of tips, as <<year, month, day>>.
TipDates == {<<2020, 6, 1>>, <<2020, 11, 15>>}

\* Dates the user can choose as cutoff.
CutoffDates == TipDates \cup {<<2021, 1, 1>>}

\* A node without collection date: the field is undefined.
NoDate == <<>>

\* "NaN-NaN-NaN", what formatDate makes of a date that is undefined.
InvalidDateString == <<78, 97, 78, 45, 78, 97, 78, 45, 78, 97, 78>>

\* Decimal digits of k as character codes, left-padded with '0' to width w.
RECURSIVE Digits(_, _)
Digits(k, w) == IF w = 0 THEN <<>> ELSE Append(Digits(k \div 10, w - 1), 48 + (k % 10))

\* formatDate(date): "YYYY-MM-DD" as a sequence of character codes.
formatDate(date) ==
  IF date = NoDate THEN InvalidDateString
  ELSE Digits(date[1], 4) \o <<45>> \o Digits(date[2], 2) \o <<45>> \o Digits(date[3], 2)

\* a >= b on strings: comparison by code units.
RECURSIVE StrGE(_, _)
StrGE(a, b) ==
  IF b = <<>> THEN TRUE
  ELSE IF a = <<>> THEN FALSE
  ELSE IF a[1] # b[1] THEN a[1] > b[1]
  ELSE StrGE(Tail(a), Tail(b))

Cutoffs == {formatDate(d) : d \in CutoffDates}

----------------------------------------------------------------------------
(* The full tree handed over by the clustering process *)

\* Parent vectors over ids 0..n-1: p[i+1] is the parentId of node i.
ParentVectors(n) == [1..n -> {Null} \cup (0..(n - 1))]

RECURSIVE ReachesRoot(_, _, _)
ReachesRoot(p, i, fuel) ==
  IF p[i + 1] = Null THEN TRUE
  ELSE IF fuel = 0 THEN FALSE
  ELSE ReachesRoot(p, p[i + 1], fuel - 1)

\* A single rooted tree: one node without parent, no cycle along parent links.
ValidTopology(n, p) ==
  /\ Cardinality({i \in 0..(n - 1) : p[i + 1] = Null}) = 1
  /\ \A i \in 0..(n - 1) : ReachesRoot(p, i, n)

\* The ids of the children of node i, ascending.
RECURSIVE ChildrenFrom(_, _, _, _)
ChildrenFrom(n, p, i, j) ==
  IF j >= n THEN <<>>
  ELSE IF p[j + 1] = i THEN <<j>> \o ChildrenFrom(n, p, i, j + 1)
  ELSE ChildrenFrom(n, p, i, j + 1)

\* The children lists of all nodes: ch[i+1] belongs to node i.
ChildLists(n, p) == [k \in 1..n |-> ChildrenFrom(n, p, k - 1, 0)]

TipIds(ch) == {k - 1 : k \in {j \in 1..Len(ch) : ch[j] = <<>>}}

\* Layout of the full tree: tips ranked in id order, internal nodes at the
\* mean of their children.
RECURSIVE SumY(_, _, _)
RECURSIVE InitialY(_, _)
InitialY(ch, i) ==
  IF ch[i + 1] = <<>> THEN DblInt(Cardinality({t \in TipIds(ch) : t < i}))
  ELSE DblDiv(SumY(ch, ch[i + 1], Len(ch[i + 1])), Len(ch[i + 1]))
\* the first k children added up from the left
SumY(ch, list, k) ==
  IF k = 0 THEN DblInt(0)
  ELSE DblAdd(SumY(ch, list, k - 1), InitialY(ch, list[k]))

\* The node records of the tree with parent vector p, children lists ch and
\* tip dates dt.
MkTree(p, ch, dt) ==
  [k \in 1..Len(ch) |->
     [ thisId      |-> k - 1,
       thisLabel   |-> k - 1,
       parentId    |-> p[k],
       parentLabel |-> p[k],
       children    |-> ch[k],
       isTip       |-> (ch[k] = <<>>),
       coldate     |-> IF ch[k] = <<>> THEN dt[k - 1] ELSE NoDate,
       y           |-> InitialY(ch, k - 1) ]]

----------------------------------------------------------------------------
(* redraw_tree: one pruning pass over the heap h.  The objects of df sit   *)
(* at addresses 1..n of h.                                                 *)

\* A copy that shares the node objects with df (df.slice() in place of a deep copy).
ShallowCopy(n) == [k \in 1..n |-> k]

\* structuredClone(df): fresh objects at addresses n+1..2n, equal to the
\* originals; the result is the array of their addresses.
structuredClone(n) == [k \in 1..n |-> n + k]

\* The heap once the clones are allocated.
AllocClones(h, n) == h \o [k \in 1..n |-> h[k]]

\* df_copy.map(x => { x.children = []; return x; })
ClearChildren(h, df_copy) ==
  [a \in 1..Len(h) |-> IF a \in Range(df_copy) THEN [h[a] EXCEPT !.children = <<>>] ELSE h[a]]

\* The date test with > in place of >=.
QualifiesStrict(x, cutoff) == x.isTip /\ StrGE(formatDate(x.coldate), cutoff) /\ formatDate(x.coldate) # cutoff

\* The date test with its operands exchanged.
QualifiesBefore(x, cutoff) == x.isTip /\ StrGE(cutoff, formatDate(x.coldate))

\* formatDate(x.coldate) >= cutoff_date && x.isTip == true.  The source
\* evaluates the date test first; on a node without coldate the conjunction
\* is false either way.
Qualifies(x, cutoff) == x.isTip /\ StrGE(formatDate(x.coldate), cutoff)

\* df_copy.filter(...): the qualifying tips, in df order.
FilterTips(h, df_copy, cutoff) == SelectSeq(df_copy, LAMBDA a : Qualifies(h[a], cutoff))

\* The while loop of the ancestor walk, from filtered_node upwards.
RECURSIVE AncestorWalk(_, _, _, _, _)
AncestorWalk(h, df_copy, filtered_df, filtered_node, child) ==
  IF filtered_node = UndefAddr THEN [h |-> h, filtered_df |-> filtered_df]
  ELSE
    LET f1 == IF ~Includes(filtered_df, filtered_node)
              THEN Append(filtered_df, filtered_node) ELSE filtered_df
        h1 == IF ~Includes(h[filtered_node].children, h[child].thisId)
              THEN [h EXCEPT ![filtered_node].children = Append(@, h[child].thisId)]
              ELSE h
    IN AncestorWalk(h1, df_copy, f1, At(df_copy, h1[filtered_node].parentId), filtered_node)

\* The while loop of the ancestor walk never ends: parent links are not
\* written during the walk, so a walk that is still at a node after as many
\* steps as there are nodes is inside a cycle.
RECURSIVE WalkDiverges(_, _, _, _)
WalkDiverges(h, df_copy, filtered_node, fuel) ==
  IF filtered_node = UndefAddr THEN FALSE
  ELSE IF fuel = 0 THEN TRUE
  ELSE WalkDiverges(h, df_copy, At(df_copy, h[filtered_node].parentId), fuel - 1)

\* filtered_df.forEach(...) over the tips present when the loop starts
\* (positions k..ntips); elements pushed meanwhile are not visited.  hang
\* records a walk that never ends.
RECURSIVE AddInternalNodes(_, _, _, _, _)
AddInternalNodes(h, df_copy, filtered_df, k, ntips) ==
  IF k > ntips THEN [h |-> h, filtered_df |-> filtered_df, hang |-> FALSE]
  ELSE
    LET node == filtered_df[k] IN
    IF WalkDiverges(h, df_copy, At(df_copy, h[node].parentId), Len(df_copy))
    THEN [h |-> h, filtered_df |-> filtered_df, hang |-> TRUE]
    ELSE
      LET w == AncestorWalk(h, df_copy, filtered_df, At(df_copy, h[node].parentId), node)
      IN AddInternalNodes(w.h, df_copy, w.filtered_df, k + 1, ntips)

\* filtered_df.sort((a, b) => a.thisId - b.thisId): stable insertion.
RECURSIVE InsertById(_, _, _)
InsertById(h, sorted, a) ==
  IF sorted = <<>> THEN <<a>>
  ELSE IF h[a].thisId - h[Head(sorted)].thisId < 0 THEN <<a>> \o sorted
  ELSE <<Head(sorted)>> \o InsertById(h, Tail(sorted), a)

RECURSIVE SortByIds(_, _)
SortByIds(h, s) ==
  IF s = <<>> THEN <<>>
  ELSE InsertById(h, SortByIds(h, SubSeq(s, 1, Len(s) - 1)), s[Len(s)])

\* The value of an implicit global that refers to the object at address a:
\* the node's label, or undefined when it refers to no node.
RefTo(h, a) == IF a = UndefAddr THEN Undefined ELSE h[a].thisLabel

\* Both implicit globals before the first assignment: neither refers to a
\* node.
NoGlobals == [parent |-> Undefined, child |-> Undefined]

\* The inner while loop of the compaction: splice node out of its parent,
\* then go on with the parent.  parent and child are assigned without a
\* declaration, so they are globals (g).  err records a TypeError (a property
\* access on undefined).
RECURSIVE SpliceChain(_, _, _, _)
SpliceChain(h, df_copy, node, g) ==
  IF h[node].parentId # Null /\ h[node].parentId # Undefined /\ Len(h[node].children) = 1
  THEN
    LET parent == At(df_copy, h[node].parentId)
        child == At(df_copy, h[node].children[1])
        g1 == [parent |-> RefTo(h, parent), child |-> RefTo(h, child)]
    IN IF parent = UndefAddr \/ child = UndefAddr THEN [h |-> h, err |-> TRUE, g |-> g1]
       ELSE
         LET h1 == [h EXCEPT ![child].parentId = h[node].parentId,
                             ![child].parentLabel = h[node].parentLabel]
             index == FindIndex(h1[parent].children, h1[node].thisId)
             h2 == [h1 EXCEPT ![parent].children = Splice(@, index, h1[node].children[1])]
         IN SpliceChain(h2, df_copy, parent, g1)
  ELSE [h |-> h, err |-> FALSE, g |-> g]

\* A test that keeps tips only.
RetainedTipsOnly(x) == x.isTip

\* A test that also keeps internal nodes with a single child.
RetainedAny(x) == Len(x.children) > 0 \/ x.isTip

\* node.children.length > 1 || node.isTip
Retained(x) == Len(x.children) > 1 \/ x.isTip

\* for (var node of filtered_df): keep tips and nodes with several children,
\* splice the others out.
RECURSIVE Compact(_, _, _, _, _, _)
Compact(h, df_copy, filtered_df, k, final_df_, g) ==
  IF k > Len(filtered_df) THEN [h |-> h, final_df |-> final_df_, err |-> FALSE, g |-> g]
  ELSE
    LET node == filtered_df[k] IN
    IF Retained(h[node])
    THEN Compact(h, df_copy, filtered_df, k + 1, Append(final_df_, node), g)
    ELSE LET s == SpliceChain(h, df_copy, node, g)
         IN IF s.err THEN [h |-> s.h, final_df |-> final_df_, err |-> TRUE, g |-> s.g]
            ELSE Compact(s.h, df_copy, filtered_df, k + 1, final_df_, s.g)

\* map_ids[key]: undefined for a key the object does not hold.
MapGet(m, key) == IF key \in DOMAIN m THEN m[key] ELSE Undefined

MapPut(m, key, v) == [x \in (DOMAIN m) \cup {key} |-> IF x = key THEN v ELSE m[x]]

EmptyMap == [x \in {} |-> 0]

\* A pass that goes on with the mapping of the pass before.
KeepMap(m) == m

\* map_ids = {}
ResetMap(m) == EmptyMap

\* JavaScript truthiness of a number or undefined: 0 and undefined are falsy.
Truthy(v) == v # Undefined /\ v # Null /\ v # 0

\* The mapping is recorded but the node keeps its old id.
AssignIdSkipped(h, node, i) == h

\* final_df[i].thisId = i
AssignId(h, node, i) == [h EXCEPT ![node].thisId = i]

\* First remapping loop: map_ids[node.thisId] = i; final_df[i].thisId = i.
RECURSIVE AssignIds(_, _, _, _)
AssignIds(h, final_df_, k, m) ==
  IF k > Len(final_df_) THEN [h |-> h, map_ids |-> m]
  ELSE LET node == final_df_[k]
           i == k - 1
       IN AssignIds(AssignId(h, node, i), final_df_, k + 1, MapPut(m, h[node].thisId, i))

\* node.parentId = map_ids[node.parentId] ? map_ids[node.parentId] : null
RemapParent(m, parentId) == IF Truthy(MapGet(m, parentId)) THEN MapGet(m, parentId) ELSE Null

\* new_children.push(map_ids[child]) for each child
RemapChildren(m, children) == [j \in 1..Len(children) |-> MapGet(m, children[j])]

\* Second remapping loop: rewrite parentId and children of every node.
RECURSIVE Rewire(_, _, _, _)
Rewire(h, final_df_, k, m) ==
  IF k > Len(final_df_) THEN h
  ELSE LET node == final_df_[k]
       IN Rewire([h EXCEPT ![node].parentId = RemapParent(m, h[node].parentId),
                           ![node].children = RemapChildren(m, h[node].children)],
                 final_df_, k + 1, m)

\* node.y = 0; node.y += final_df[node.children[i]].y for each i.
\* Reading .y of final_df[undefined] throws.
RECURSIVE SumChildY(_, _, _, _)
SumChildY(h, final_df_, children, i) ==
  IF i = 0 THEN [y |-> DblInt(0), err |-> FALSE]
  ELSE LET acc == SumChildY(h, final_df_, children, i - 1)
           c == At(final_df_, children[i])
       IN IF acc.err THEN acc
          ELSE IF c = UndefAddr THEN [y |-> acc.y, err |-> TRUE]
          ELSE [y |-> DblAdd(acc.y, h[c].y), err |-> FALSE]

\* The y of an internal node: the sum over its children divided by their number.
InternalY(h, final_df_, node) ==
  LET s == SumChildY(h, final_df_, h[node].children, Len(h[node].children))
  IN [y |-> DblDiv(s.y, Len(h[node].children)), err |-> s.err]

\* A counter that is never incremented.
CounterStuck(counter) == counter

\* counter++ leaves counter + 1 behind
NextCounter(counter) == counter + 1

\* Recalculate y coordinates: final_df.forEach in list order.
RECURSIVE Layout(_, _, _, _)
Layout(h, final_df_, k, counter) ==
  IF k > Len(final_df_) THEN [h |-> h, err |-> FALSE]
  ELSE LET node == final_df_[k] IN
       IF h[node].isTip
       THEN Layout([h EXCEPT ![node].y = DblInt(counter)], final_df_, k + 1, NextCounter(counter))
       ELSE LET r == InternalY(h, final_df_, node)
            IN IF r.err THEN [h |-> h, err |-> TRUE]
               ELSE Layout([h EXCEPT ![node].y = r.y], final_df_, k + 1, counter)

\* The working copy (children cleared) in place of the full tree.
FallbackCopy(n) == [k \in 1..n |-> n + k]

\* The branch taken when no tip qualifies: final_df = df (the same array).
Fallback(n) == [k \in 1..n |-> k]

\* The pass up to the node list: heap, final_df (addresses), map_ids, whether
\* the pruning branch ran, and whether it threw.
RedrawPass(h0, n, cutoff, m0, g0) ==
  LET df_copy == structuredClone(n)
      h1 == ClearChildren(AllocClones(h0, n), df_copy)
      tips == FilterTips(h1, df_copy, cutoff)
  IN IF Len(tips) > 0
     THEN
       LET w == AddInternalNodes(h1, df_copy, tips, 1, Len(tips)) IN
       IF w.hang
       THEN [h |-> w.h, final_df |-> <<>>, map_ids |-> m0, globals |-> g0,
             pruned |-> TRUE, err |-> FALSE, hang |-> TRUE]
       ELSE
       LET c == Compact(w.h, df_copy, SortByIds(w.h, w.filtered_df), 1, <<>>, g0)
       IN IF c.err
          THEN [h |-> c.h, final_df |-> c.final_df, map_ids |-> m0, globals |-> c.g,
                pruned |-> TRUE, err |-> TRUE, hang |-> FALSE]
          ELSE
            LET a == AssignIds(c.h, c.final_df, 1, ResetMap(m0))
                h3 == Rewire(a.h, c.final_df, 1, a.map_ids)
                l == Layout(h3, c.final_df, 1, 0)
            IN [h |-> l.h, final_df |-> c.final_df, map_ids |-> a.map_ids, globals |-> c.g,
                pruned |-> TRUE, err |-> l.err, hang |-> FALSE]
     ELSE [h |-> h1, final_df |-> Fallback(n), map_ids |-> m0, globals |-> g0,
           pruned |-> FALSE, err |-> FALSE, hang |-> FALSE]

----------------------------------------------------------------------------
(* The state machine *)

TipLabels(nodes) == {nodes[k].thisLabel : k \in {j \in 1..Len(nodes) : nodes[j].isTip}}

NoCall == [cutoff |-> <<>>, outcome |-> "none", tips |-> {}]

\* The tables before any cluster was selected.
NoShown == [gentable |-> Undefined, gen_mut_table |-> Undefined]

\* The page before the first redraw_tree call.
Idle ==
  /\ cutoff_date = <<>>
  /\ outcome = "none"
  /\ final_df = <<>>
  /\ filtered_tips = <<>>
  /\ map_ids = EmptyMap
  /\ globals = NoGlobals
  /\ filtered_recomb_tips = <<>>
  /\ cindex = Undefined
  /\ pending = <<>>
  /\ shown = NoShown
  /\ prev = NoCall

\* df is a well-formed tree of at most maxn nodes.
TreeInit(maxn) ==
  \E n \in 1..maxn : \E p \in ParentVectors(n) :
    /\ ValidTopology(n, p)
    /\ \E ch \in {ChildLists(n, p)} : \E dt \in [TipIds(ch) -> TipDates] :
         df = MkTree(p, ch, dt)

Init == TreeInit(MaxNodes) /\ recombinant_tips = <<>> /\ Idle

\* The recombinant tips that pass the cutoff, as positions of the list.
KeepsRecombStrict(x, cutoff) == StrGE(formatDate(x.coldate), cutoff) /\ formatDate(x.coldate) # cutoff

\* formatDate(x.coldate) >= cutoff_date
KeepsRecomb(x, cutoff) == StrGE(formatDate(x.coldate), cutoff)

\* recombinant_tips.filter(...): the positions of the elements kept.
FilterRecomb(list, cutoff) ==
  SelectSeq([k \in 1..Len(list) |-> k], LAMBDA k : KeepsRecomb(list[k], cutoff))

\* filtered_recomb_tips.forEach((x, i) => { x.y = i }): the objects are
\* those of recombinant_tips, so the list itself is written.
PlaceRecomb(list, kept) ==
  [k \in 1..Len(list) |->
     IF Includes(kept, k) THEN [list[k] EXCEPT !.y = FindIndex(kept, k)] ELSE list[k]]

\* The last rect of the tree's svg carries the last tip handed to
\* draw_clusters; its cluster is identified by the tip's label.
LastTip(tips) == tips[Len(tips)].thisLabel

\* A handler suspended at await beadplot(...): which handler, and the node
\* it holds in a local variable.
Suspended(handler, node) == [handler |-> handler, node |-> node]

\* The statements after await beadplot(...).  redraw_tree fills the cluster
\* table from its local node and the mutation table from the global cindex;
\* click_cluster (with no search active) fills both from its argument d.
PostAwait(c, cidx) ==
  [gentable |-> c.node,
   gen_mut_table |-> IF c.handler = "redraw_tree" THEN cidx ELSE c.node]

\* The statements of redraw_tree after the pruning pass r, up to
\* await beadplot(cindex) or to the end.  A TypeError in the pass leaves the
\* function before anything is handed to drawing; a walk that never ends
\* leaves the page stuck.  With redraw && !partial_redraw the cluster of the
\* last drawn tip is selected and the call suspends.
AfterPass(r, cutoff, redraw, partial_redraw) ==
  LET drawn == [k \in 1..Len(r.final_df) |-> r.h[r.final_df[k]]]
      tips == SelectSeq(drawn, LAMBDA x : x.isTip)
      done == ~r.err /\ ~r.hang
      kept == FilterRecomb(recombinant_tips, cutoff)
      placed == PlaceRecomb(recombinant_tips, kept)
      selects == done /\ redraw /\ ~partial_redraw
      awaits == selects /\ tips # <<>>
  IN
  /\ awaits => Len(pending) < MaxPending
  /\ df' = SubSeq(r.h, 1, Len(df))
  /\ cutoff_date' = cutoff
  /\ map_ids' = r.map_ids
  /\ globals' = r.globals
  /\ outcome' = IF r.hang THEN "hang"
                ELSE IF r.err \/ (selects /\ tips = <<>>) THEN "TypeError"
                ELSE IF r.pruned THEN "pruned" ELSE "fallback"
  /\ final_df' = IF done THEN drawn ELSE final_df
  /\ filtered_tips' = IF done THEN tips ELSE filtered_tips
  /\ recombinant_tips' = IF done THEN placed ELSE recombinant_tips
  /\ filtered_recomb_tips' =
       IF done THEN [j \in 1..Len(kept) |-> placed[kept[j]]] ELSE filtered_recomb_tips
  /\ cindex' = IF awaits THEN LastTip(tips) ELSE cindex
  /\ pending' = IF awaits THEN Append(pending, Suspended("redraw_tree", LastTip(tips)))
                ELSE pending
  /\ shown' = shown

\* redraw_tree(cutoff_date, redraw, partial_redraw) up to its await or end.
redraw_tree(cutoff) ==
  /\ outcome # "hang"
  /\ \E r \in {RedrawPass(df, Len(df), cutoff, map_ids, globals)} :
       \E redraw \in BOOLEAN : \E partial_redraw \in BOOLEAN :
         AfterPass(r, cutoff, redraw, partial_redraw)

\* a <= b on Date values: by their time value.
NotAfter(a, b) ==
  \/ a[1] < b[1]
  \/ a[1] = b[1] /\ a[2] < b[2]
  \/ a[1] = b[1] /\ a[2] = b[2] /\ a[3] <= b[3]

\* min_date = formatDate(d3.min(df, d => d.last_date)).  A tip carries one
\* collection date here, which is its last_date; an internal node's last_date
\* is that of a tip below it, so the minimum is taken at a tip.  Over a tree
\* without tips d3.min is undefined.
MinDate ==
  LET ds == {df[k].coldate : k \in {j \in 1..Len(df) : df[j].isTip}}
  IN IF ds = {} THEN formatDate(NoDate)
     ELSE formatDate(CHOOSE d \in ds : \A e \in ds : NotAfter(d, e))

\* reset_tree(partial_redraw): the call of redraw_tree with min_date, up to its
\* await or end; the statements around it touch the slider only.
reset_tree(partial_redraw) ==
  /\ outcome # "hang"
  /\ \E r \in {RedrawPass(df, Len(df), MinDate, map_ids, globals)} :
       AfterPass(r, MinDate, TRUE, partial_redraw)

\* The clusters whose rect carries the click listener: the tips and the
\* recombinant tips handed to draw_clusters last.
ClickTargets ==
  {filtered_tips[k].thisLabel : k \in 1..Len(filtered_tips)}
    \cup {filtered_recomb_tips[k].cluster_idx : k \in 1..Len(filtered_recomb_tips)}

\* click_cluster(d, cluster_info) on the rect of cluster d, up to
\* await beadplot(d.cluster_idx).
click_cluster(d) ==
  /\ Len(pending) < MaxPending
  /\ outcome # "hang"
  /\ cindex' = d
  /\ pending' = Append(pending, Suspended("click_cluster", d))
  /\ UNCHANGED <<df, cutoff_date, outcome, final_df, filtered_tips, map_ids, globals,
                 recombinant_tips, filtered_recomb_tips, shown>>

\* The promise of the i-th suspended handler resolves and the handler runs to
\* its end.  A page stuck in a call that never returns resumes nothing.
beadplot_resolved(i) ==
  /\ outcome # "hang"
  /\ shown' = PostAwait(pending[i], cindex)
  /\ pending' = SubSeq(pending, 1, i - 1) \o SubSeq(pending, i + 1, Len(pending))
  /\ UNCHANGED <<df, cutoff_date, outcome, final_df, filtered_tips, map_ids, globals,
                 recombinant_tips, filtered_recomb_tips, cindex>>

Next ==
  /\ \/ \E cutoff \in Cutoffs : redraw_tree(cutoff)
     \/ \E partial_redraw \in BOOLEAN : reset_tree(partial_redraw)
     \/ \E d \in ClickTargets : click_cluster(d)
     \/ \E i \in 1..Len(pending) : beadplot_resolved(i)
  /\ UNCHANGED prev

Spec == Init /\ [][Next]_vars

\* The same program with a history variable: prev records the call that the
\* new call replaces.
RecordCall == prev' = [cutoff |-> cutoff_date, outcome |-> outcome, tips |-> TipLabels(filtered_tips)]

\* A call of redraw_tree or reset_tree is recorded; the other steps leave
\* the history alone.
NextHist ==
  \/ \E cutoff \in Cutoffs : redraw_tree(cutoff) /\ RecordCall
  \/ \E partial_redraw \in BOOLEAN : reset_tree(partial_redraw) /\ RecordCall
  \/ \E d \in ClickTargets : click_cluster(d) /\ UNCHANGED prev
  \/ \E i \in 1..Len(pending) : beadplot_resolved(i) /\ UNCHANGED prev

SpecHist == Init /\ [][NextHist]_vars

----------------------------------------------------------------------------
(* A page with recombinant tips *)

\* Collection dates of the recombinant tips; they may be later than every
\* tip of the tree.
RecombDates == CutoffDates

\* The recombinant list as loaded: one record per cluster, laid out in list
\* order.
RecombInit(maxr) ==
  \E r \in 0..maxr : \E dts \in [1..r -> RecombDates] :
    recombinant_tips = [k \in 1..r |-> [cluster_idx |-> k - 1, coldate |-> dts[k], y |-> k - 1]]

InitRecomb == TreeInit(MaxSmallNodes) /\ RecombInit(MaxRecomb) /\ Idle

SpecRecomb == InitRecomb /\ [][Next]_vars

----------------------------------------------------------------------------
(* A page whose tree is malformed: a parentId that refers to no node, or a *)
(* cycle along the parent links                                            *)

\* Parent vectors in which the id n refers to no node.
LooseParentVectors(n) == [1..n -> {Null} \cup (0..n)]

\* The parent links from node i end (at null or at an id that refers to no
\* node) within fuel steps.
RECURSIVE ChainEnds(_, _, _)
ChainEnds(p, i, fuel) ==
  IF i \notin 0..(Len(p) - 1) THEN TRUE
  ELSE IF fuel = 0 THEN FALSE
  ELSE ChainEnds(p, p[i + 1], fuel - 1)

HasDanglingParent(n, p) == \E i \in 0..(n - 1) : p[i + 1] = n

HasCycle(n, p) == \E i \in 0..(n - 1) : ~ChainEnds(p, i, n + 1)

\* The node records of a malformed tree: fields as in MkTree, tips ranked in
\* id order, internal nodes at y 0 (a mean over a cycle is not defined).
MkMalformedTree(p, ch, dt) ==
  [k \in 1..Len(ch) |->
     [ thisId      |-> k - 1,
       thisLabel   |-> k - 1,
       parentId    |-> p[k],
       parentLabel |-> p[k],
       children    |-> ch[k],
       isTip       |-> (ch[k] = <<>>),
       coldate     |-> IF ch[k] = <<>> THEN dt[k - 1] ELSE NoDate,
       y           |-> IF ch[k] = <<>> THEN DblInt(Cardinality({t \in TipIds(ch) : t < k - 1}))
                       ELSE DblInt(0) ]]

InitMalformed ==
  /\ \E n \in 1..MaxSmallNodes : \E p \in LooseParentVectors(n) :
       /\ HasDanglingParent(n, p) \/ HasCycle(n, p)
       /\ \E ch \in {ChildLists(n, p)} : \E dt \in [TipIds(ch) -> TipDates] :
            df = MkMalformedTree(p, ch, dt)
  /\ recombinant_tips = <<>>
  /\ Idle

SpecMalformed == InitMalformed /\ [][Next]_vars

----------------------------------------------------------------------------
(* A page whose tree has few tips and long chains of internal nodes        *)

\* df is a well-formed tree of at most maxn nodes and at most maxt tips, all
\* collected on the same day.
ChainTreeInit(maxn, maxt) ==
  \E n \in 1..maxn : \E p \in ParentVectors(n) :
    /\ ValidTopology(n, p)
    /\ \E ch \in {ChildLists(n, p)} :
         /\ Cardinality(TipIds(ch)) <= maxt
         /\ \E d \in TipDates : df = MkTree(p, ch, [t \in TipIds(ch) |-> d])

InitChain == ChainTreeInit(MaxChainNodes, MaxChainTips) /\ recombinant_tips = <<>> /\ Idle

SpecChain == InitChain /\ [][Next]_vars

----------------------------------------------------------------------------
(* Vocabulary of the properties.  Nodes are identified across snapshots by *)
(* thisLabel, which no pass rewrites; in the full tree thisLabel = thisId. *)

\* Something was handed to drawing by the last call.
Drawn == outcome \in {"pruned", "fallback"}

\* The date the last call's cutoff string stands for.
DateOf(str) == CHOOSE d \in CutoffDates : formatDate(d) = str

\* Chronological order on <<year, month, day>>.
DateGE(a, b) ==
  \/ a[1] > b[1]
  \/ a[1] = b[1] /\ a[2] > b[2]
  \/ a[1] = b[1] /\ a[2] = b[2] /\ a[3] >= b[3]

\* Labels of the tips of the full tree collected on or after the date c.
TipsOnOrAfter(c) ==
  {df[k].thisLabel : k \in {j \in 1..Len(df) : df[j].isTip /\ DateGE(df[j].coldate, c)}}

AllTips == {df[k].thisLabel : k \in {j \in 1..Len(df) : df[j].isTip}}

SnapLabels == {final_df[k].thisLabel : k \in 1..Len(final_df)}

\* Position in final_df of the node with label l.
PosOf(l) == CHOOSE k \in 1..Len(final_df) : final_df[k].thisLabel = l

\* Label of the nearest proper ancestor (in the full tree) of the node with
\* label l that is in the snapshot, or Null.
RECURSIVE NearestRetained(_)
NearestRetained(l) ==
  LET q == df[l + 1].parentId IN
  IF q = Null THEN Null
  ELSE IF q \in SnapLabels THEN q
  ELSE NearestRetained(q)

Occurrences(list, v) == Cardinality({j \in 1..Len(list) : list[j] = v})

\* Sum of the y of the snapshot nodes with ids children[i..].
RECURSIVE SnapSumY(_, _)
SnapSumY(children, i) ==
  IF i = 0 THEN DblInt(0)
  ELSE DblAdd(SnapSumY(children, i - 1), final_df[children[i] + 1].y)

\* In the full tree, the node with label a is the node with label l or one of
\* its ancestors.
RECURSIVE IsAncestorOrSelf(_, _)
IsAncestorOrSelf(a, l) ==
  IF a = l THEN TRUE
  ELSE IF df[l + 1].parentId = Null THEN FALSE
  ELSE IsAncestorOrSelf(a, df[l + 1].parentId)

\* The children (in the full tree) of the node with label l whose subtree
\* holds a tip of the snapshot.
SurvivingChildren(l) ==
  {c \in Range(df[l + 1].children) : \E t \in TipLabels(final_df) : IsAncestorOrSelf(c, t)}

\* Some internal node of the full tree has exactly one child.
HasUnaryNode == \E k \in 1..Len(df) : Len(df[k].children) = 1

----------------------------------------------------------------------------
(* Properties *)

\* C1: no redraw_tree call, pruning or fallback, changes any field of any
\* node of the full tree df.
FullTreeUnchanged == [][df' = df]_vars

\* C1 witness: a pruning pass dropped nodes and spliced a single-child node
\* out, rewriting the parentLabel of a node of its working copy.
FullTreeUnchangedWitness ==
  /\ outcome = "pruned" /\ Len(final_df) < Len(df)
  /\ \E k \in 1..Len(final_df) :
       final_df[k].parentLabel # df[final_df[k].thisLabel + 1].parentLabel

\* C2: after a pruning pass the tips of the snapshot are exactly the tips of
\* the full tree collected on or after the cutoff, each once.
SnapshotTipsExact ==
  outcome = "pruned" =>
    /\ TipLabels(final_df) = TipsOnOrAfter(DateOf(cutoff_date))
    /\ TipLabels(filtered_tips) = TipsOnOrAfter(DateOf(cutoff_date))
    /\ Len(filtered_tips) = Cardinality(TipsOnOrAfter(DateOf(cutoff_date)))

\* C2 witness: a pruning pass kept a tip collected exactly on the cutoff and
\* dropped another tip.
SnapshotTipsExactWitness ==
  /\ outcome = "pruned"
  /\ \E k \in 1..Len(filtered_tips) : formatDate(filtered_tips[k].coldate) = cutoff_date
  /\ TipLabels(filtered_tips) # AllTips

\* C3: when no tip is collected on or after the cutoff, the call hands the
\* full tree itself and all its tips to drawing.
FallbackIsFullTree ==
  (cutoff_date # <<>> /\ TipsOnOrAfter(DateOf(cutoff_date)) = {}) =>
    /\ outcome = "fallback"
    /\ final_df = df
    /\ filtered_tips = SelectSeq(df, LAMBDA x : x.isTip)

\* C3 witness: a fallback call on a tree with internal nodes, after a
\* pruning pass (which left its map_ids behind) had drawn a smaller snapshot.
FallbackIsFullTreeWitness ==
  /\ outcome = "fallback" /\ map_ids # EmptyMap
  /\ Len(df) >= 3 /\ Cardinality(DOMAIN map_ids) < Len(df)

\* C4: after a pruning pass every snapshot node occurs exactly once in the
\* children list of its nearest retained ancestor and in no other list (the
\* snapshot's root in none).
ChildrenListsConsistent ==
  outcome = "pruned" =>
    \A k \in 1..Len(final_df) : \A q \in 1..Len(final_df) :
      Occurrences(final_df[q].children, final_df[k].thisId) =
        IF final_df[q].thisLabel = NearestRetained(final_df[k].thisLabel) THEN 1 ELSE 0

\* C5: after a pruning pass exactly one node has parentId null and every
\* other node's parentId is the new id of its nearest retained ancestor.
ParentIdsResolved ==
  outcome = "pruned" =>
    /\ Cardinality({k \in 1..Len(final_df) : final_df[k].parentId = Null}) = 1
    /\ \A k \in 1..Len(final_df) :
         LET a == NearestRetained(final_df[k].thisLabel) IN
         final_df[k].parentId = IF a = Null THEN Null ELSE final_df[PosOf(a)].thisId

\* C6: after a pruning pass every non-tip node of the snapshot has at least
\* two entries in its children list and every tip has none; a retained
\* internal node has at least two children with a surviving tip below them.
NoUnaryInternalNode ==
  outcome = "pruned" =>
    \A k \in 1..Len(final_df) :
      IF final_df[k].isTip THEN Len(final_df[k].children) = 0
      ELSE /\ Len(final_df[k].children) >= 2
           /\ Cardinality(SurvivingChildren(final_df[k].thisLabel)) >= 2

\* C6 witness: a pruning pass over a tree with a single-child internal node
\* produced a snapshot with an internal node.
NoUnaryInternalNodeWitness ==
  /\ outcome = "pruned" /\ HasUnaryNode
  /\ \E k \in 1..Len(final_df) : ~final_df[k].isTip

\* C7: after a pruning pass the node at list position i has id i, so the
\* ids are exactly 0..N-1.
IdsDense ==
  outcome = "pruned" =>
    /\ \A k \in 1..Len(final_df) : final_df[k].thisId = k - 1
    /\ {final_df[k].thisId : k \in 1..Len(final_df)} = 0..(Len(final_df) - 1)

\* C7 witness: a pruning pass dropped nodes and renumbered a survivor.
IdsDenseWitness ==
  /\ outcome = "pruned" /\ Len(final_df) < Len(df)
  /\ \E k \in 1..Len(final_df) : final_df[k].thisId # final_df[k].thisLabel

\* C8: after a pruning pass the y of every internal node is the mean of the
\* y its children carry in the snapshot.
InternalYIsMean ==
  outcome = "pruned" =>
    \A k \in 1..Len(final_df) :
      ~final_df[k].isTip =>
        /\ \A j \in 1..Len(final_df[k].children) :
             final_df[k].children[j] \in 0..(Len(final_df) - 1)
        /\ final_df[k].y = DblDiv(SnapSumY(final_df[k].children, Len(final_df[k].children)), Len(final_df[k].children))

\* C9: after a pruning pass the tips, in ascending id order, carry
\* y = 0, 1, ..., T-1.
TipYSequential ==
  outcome = "pruned" =>
    \A j \in 1..Len(filtered_tips) :
      /\ filtered_tips[j].y = DblInt(j - 1)
      /\ \A i \in 1..(j - 1) : filtered_tips[i].thisId < filtered_tips[j].thisId

\* C9 witness: a pruning pass dropped the first tip and kept two others.
TipYSequentialWitness ==
  /\ outcome = "pruned" /\ Len(filtered_tips) >= 2
  /\ \E k \in 1..Len(df) : df[k].isTip /\ df[k].thisLabel \notin TipLabels(filtered_tips)
                            /\ \A t \in TipLabels(filtered_tips) : df[k].thisLabel < t

\* The tips drawn by the last two calls, with the cutoffs they belong to.
LaterCutoff(c1, c2) == DateGE(DateOf(c2), DateOf(c1)) /\ c1 # c2

\* C10 as stated: whenever two calls had cutoffs c1 < c2, the tips drawn for
\* c2 are among the tips drawn for c1.
CutoffMonotone ==
  (Drawn /\ prev.outcome \in {"pruned", "fallback"}) =>
    /\ LaterCutoff(prev.cutoff, cutoff_date) => TipLabels(filtered_tips) \subseteq prev.tips
    /\ LaterCutoff(cutoff_date, prev.cutoff) => prev.tips \subseteq TipLabels(filtered_tips)

\* C10 amended: the same, provided at least one tip is collected on or after
\* c2 (the call for c2 pruned instead of falling back).
CutoffMonotoneWhenPruned ==
  (Drawn /\ prev.outcome \in {"pruned", "fallback"}) =>
    /\ (LaterCutoff(prev.cutoff, cutoff_date) /\ TipsOnOrAfter(DateOf(cutoff_date)) # {})
         => TipLabels(filtered_tips) \subseteq prev.tips
    /\ (LaterCutoff(cutoff_date, prev.cutoff) /\ TipsOnOrAfter(DateOf(prev.cutoff)) # {})
         => prev.tips \subseteq TipLabels(filtered_tips)

\* C10 witness: two pruning passes with increasing cutoffs, the later one
\* drawing strictly fewer tips.
CutoffMonotoneWitness ==
  /\ outcome = "pruned" /\ prev.outcome = "pruned"
  /\ LaterCutoff(prev.cutoff, cutoff_date)
  /\ TipLabels(filtered_tips) # prev.tips

----------------------------------------------------------------------------
(* Pruning applied to a snapshot, root retention *)

\* The id, parentId and children list of every node of a list, by label.
Shape(nodes) ==
  [k \in 1..Len(nodes) |->
     <<nodes[k].thisLabel, nodes[k].thisId, nodes[k].parentId, nodes[k].children>>]

\* The drawn snapshot taken as the tree of a further pass with the same
\* cutoff.
PassOverSnapshot == RedrawPass(final_df, Len(final_df), cutoff_date, map_ids, globals)

\* C11: pruning and compacting a snapshot a pass produced, with the same
\* cutoff, gives the same node set: no node is removed and no node's id,
\* parentId or children list changes.
CompactionIdempotent ==
  outcome = "pruned" =>
    LET r == PassOverSnapshot IN
    /\ ~r.err /\ ~r.hang /\ r.pruned
    /\ Shape([k \in 1..Len(r.final_df) |-> r.h[r.final_df[k]]]) = Shape(final_df)

\* C12: in a drawn snapshot every children entry and every parentId is the
\* id of a snapshot node; no undefined entry is written, and null is written
\* as parentId only for the node that has no retained ancestor.
RemapResolvesOrFails ==
  outcome = "pruned" =>
    \A k \in 1..Len(final_df) :
      /\ \A j \in 1..Len(final_df[k].children) :
           final_df[k].children[j] \in 0..(Len(final_df) - 1)
      /\ final_df[k].parentId \in {Null} \cup (0..(Len(final_df) - 1))
      /\ final_df[k].parentId = Null => NearestRetained(final_df[k].thisLabel) = Null

\* Label of the root of the full tree.
RootLabel == df[CHOOSE k \in 1..Len(df) : df[k].parentId = Null].thisLabel

\* Labels of the tips that qualify for the last call's cutoff.
QualifyingTips == TipsOnOrAfter(DateOf(cutoff_date))

\* Label of the most recent common ancestor (in the full tree) of the
\* qualifying tips.
MRCA ==
  LET common == {a \in 0..(Len(df) - 1) : \A t \in QualifyingTips : IsAncestorOrSelf(a, t)}
  IN CHOOSE a \in common : \A b \in common : IsAncestorOrSelf(b, a)

\* The snapshot hangs below the most recent common ancestor of the
\* qualifying tips, which has parentId null.
SnapshotRootIsMRCA ==
  /\ MRCA \in SnapLabels
  /\ \A l \in SnapLabels : IsAncestorOrSelf(MRCA, l)
  /\ final_df[PosOf(MRCA)].parentId = Null

\* With one qualifying tip the snapshot is that tip alone.
SingleTipSnapshot ==
  Cardinality(QualifyingTips) = 1 =>
    /\ Len(final_df) = 1
    /\ final_df[1].thisLabel \in QualifyingTips
    /\ final_df[1].thisId = 0
    /\ final_df[1].parentId = Null
    /\ final_df[1].y = DblInt(0)

\* C17 as stated: after a pruning pass the root of the full tree is in the
\* snapshot exactly if at least two of its children have a qualifying tip
\* below them; the snapshot's root is the most recent common ancestor of the
\* qualifying tips; a single qualifying tip is the whole snapshot.
RootKeptIffTwoBranches ==
  outcome = "pruned" =>
    /\ RootLabel \in SnapLabels <=> Cardinality(SurvivingChildren(RootLabel)) >= 2
    /\ SnapshotRootIsMRCA
    /\ SingleTipSnapshot

\* C17 amended: the same for a root that is not itself a tip; a root that is
\* a qualifying tip is the whole snapshot.
RootKeptIffTwoBranchesOrTip ==
  outcome = "pruned" =>
    /\ IF df[RootLabel + 1].isTip
       THEN Shape(final_df) = <<<<RootLabel, 0, Null, <<>>>>>>
       ELSE RootLabel \in SnapLabels <=> Cardinality(SurvivingChildren(RootLabel)) >= 2
    /\ SnapshotRootIsMRCA
    /\ SingleTipSnapshot

\* C17 witness: a pruning pass dropped the root of the full tree and kept an
\* internal node below it as the snapshot's root.
RootKeptIffTwoBranchesWitness ==
  /\ outcome = "pruned"
  /\ RootLabel \notin SnapLabels
  /\ MRCA # RootLabel /\ ~df[MRCA + 1].isTip
  /\ Len(final_df) > 2

----------------------------------------------------------------------------
(* Independence of the snapshot from earlier passes *)

\* The node records a pass result hands to drawing.
NodesOf(r) == [k \in 1..Len(r.final_df) |-> r.h[r.final_df[k]]]

\* The pass with the last call's cutoff on a page that has run no pass yet:
\* empty map_ids, parent and child unassigned.
FreshPass == RedrawPass(df, Len(df), cutoff_date, EmptyMap, NoGlobals)

\* C16: whatever passes ran before, the call with cutoff c ends as the first
\* call of a fresh page with cutoff c does, and hands the same node records
\* (ids, parentId, children, y and all other fields) to drawing.
SnapshotDependsOnCutoffOnly ==
  cutoff_date # <<>> =>
    LET r == FreshPass IN
    /\ (outcome = "TypeError") = r.err
    /\ (outcome = "pruned") = (r.pruned /\ ~r.err)
    /\ Drawn => final_df = NodesOf(r)

\* C16 witness: a pruning pass ran on a page whose global child still refers
\* to a tip that an earlier pass with another cutoff spliced upwards and that
\* the last call's cutoff excludes.
SnapshotDependsOnCutoffOnlyWitness ==
  /\ outcome = "pruned"
  /\ globals.child \in AllTips \ QualifyingTips
  /\ map_ids # EmptyMap

----------------------------------------------------------------------------
(* Malformed trees, recombinant list, suspended handlers *)

\* C13: on a malformed tree every call ends, and ends by rejecting the input
\* with the outcome InvalidTopology: no walk runs forever and no node list
\* is handed to drawing.
MalformedRejected ==
  cutoff_date # <<>> => outcome = "InvalidTopology"

\* A call on a malformed tree never ends.
WalkHangs == outcome = "hang"

\* A call on a malformed tree drew a pruned snapshot with two nodes that
\* have no retained ancestor.
ForestDrawn ==
  /\ outcome = "pruned"
  /\ Cardinality({k \in 1..Len(final_df) : final_df[k].parentId = Null}) > 1
  /\ \E k \in 1..Len(df) : df[k].parentId = Len(df)

\* Label sequence of the recombinant tips collected on or after the date c.
RecombOnOrAfter(c) ==
  LET kept == SelectSeq([k \in 1..Len(recombinant_tips) |-> k],
                        LAMBDA k : DateGE(recombinant_tips[k].coldate, c))
  IN [j \in 1..Len(kept) |-> recombinant_tips[kept[j]].cluster_idx]

\* C15: after a call that drew, pruned or not, the recombinant list handed
\* to drawing holds exactly the recombinant tips collected on or after the
\* cutoff, in their original order, the one at position i with y = i.
RecombinantListExact ==
  Drawn =>
    /\ [j \in 1..Len(filtered_recomb_tips) |-> filtered_recomb_tips[j].cluster_idx]
         = RecombOnOrAfter(DateOf(cutoff_date))
    /\ \A j \in 1..Len(filtered_recomb_tips) : filtered_recomb_tips[j].y = j - 1

\* C15 witness: the tree fell back to the full tree while some recombinant
\* tip was kept, after a first one was dropped, and moved to a new y.
RecombinantListExactWitness ==
  /\ outcome = "fallback"
  /\ Len(recombinant_tips) = 2
  /\ Len(filtered_recomb_tips) = 1
  /\ filtered_recomb_tips[1].cluster_idx = 1
  /\ filtered_recomb_tips[1].y = 0

\* C14: the tables are filled for one cluster, and that cluster is a tip of
\* the node list drawn last.
StaleRenderIgnored ==
  shown # NoShown =>
    /\ shown.gentable = shown.gen_mut_table
    /\ shown.gentable \in TipLabels(filtered_tips)

====
